---- MODULE Spec2Model ----
(***************************************************************************)
(* Telemetry ingestion and event distribution of the Smart Helmet          *)
(* dashboard: EventBus (src/core/event_bus.py), NetworkWorker and          *)
(* NetworkManager (src/network/network_manager.py).                        *)
(***************************************************************************)
EXTENDS Integers, Sequences, FiniteSets, TLC

(***************************************************************************)
(* Bounds of the model.                                                    *)
(***************************************************************************)
\* publish calls made in one behaviour of the bus
MaxPub == 2
\* subscribe and unsubscribe calls made in one behaviour of the bus
MaxReg == 3

(***************************************************************************)
(* Universe of the bus model.                                              *)
(***************************************************************************)
Topics == {"sensor.gas", "sensor.temperature"}
Callbacks == {"a", "b"}
\* "main" is the consuming context (the thread the EventBus QObject lives
\* in); "worker" is a producing context (any other thread).
Contexts == {"main", "worker"}
\* What one invocation of a subscriber callback does: it returns, it raises
\* an Exception, or it publishes on the bus (and then returns).
Outcomes == {"return", "raise", "publish"}

VARIABLES
    subscribers,  \* EventBus._subscribers: keys present |-> list of callbacks
    qtQueue,      \* event_signal emissions queued to the consuming context
    stack,        \* the _notify_subscribers calls in progress on the consuming context
    pubs,         \* history: the publish calls, in the order they began, each with
                  \* the snapshot its delivery took
    log,          \* history: the callback invocations, in the order they ran
    changedAt,    \* history: number of publish calls begun when the registry last changed
    escaped,      \* history: an exception left _notify_subscribers
    regCalls,     \* history: number of subscribe and unsubscribe calls made
    blocked,      \* history: a callback waits for ever for the lock of the bus
    resubscribed  \* history: a subscribe call found its callback registered already

busVars == <<subscribers, qtQueue, stack, pubs, log, changedAt, escaped, regCalls,
             blocked, resubscribed>>

VARIABLES
    running,      \* NetworkWorker.running
    connected,    \* NetworkWorker.connected
    socket,       \* NetworkWorker.socket: "none", or the state of the socket object
    wpc,          \* where the worker thread is in NetworkWorker.start / run_tcp
    buffer,       \* run_tcp's local buffer
    mpc,          \* where the main thread is in NetworkManager.start / stop
    quit,         \* QThread.quit() was called on the worker thread
    lastStatus,   \* the last connection_status_changed emitted ("none": none yet)
    lastError,    \* the last error_occurred emitted ("none": none yet)
    script,       \* environment: the bytes the peer sends on a connection
    wire,         \* environment: bytes sent by the peer and not yet received
    rx,           \* history: the bytes received on the current connection
    dataOut,      \* history: the data_received emissions of the current connection
    left,         \* history: why the receive loop of the current connection ended
    attempts,     \* history: connection attempts made (counted up to MaxAttempts)
    protocol,     \* the protocol string NetworkWorker was constructed with
    errorCount,   \* history: error_occurred emissions (counted up to MaxErrors)
    sent,         \* history: the last send_data call, and what it did
    config,       \* ConfigManager._config when NetworkManager was constructed
    host,         \* NetworkWorker.host
    port,         \* NetworkWorker.port
    carry,        \* history: what run_tcp's buffer held when the connection was made
    timedOut,     \* history: a receive timeout of the connection found a partial
                  \* frame in the buffer ("partial"), and a later read has
                  \* completed a line ("joined"); "no" otherwise
    loops,        \* history: the receive loops (run_tcp, run_udp) that are executing
    startsAgain   \* history: the calls of NetworkManager.start made after the first:
                  \* how many found the thread running, how many started it again

workerVars == <<running, connected, socket, wpc, buffer, mpc, quit, lastStatus,
                lastError, script, wire, rx, dataOut, left, attempts, protocol,
                errorCount, sent, config, host, port, carry, timedOut, loops,
                startsAgain>>

VARIABLES
    msg,          \* the decoded message data_received delivers to the manager
    routed,       \* on_data_received has handled msg
    published,    \* history: the event_bus.publish calls on_data_received made
    raised,       \* history: on_data_received raised
    slotCount     \* data_received emissions of the connection the manager's slot
                  \* has handled

routerVars == <<msg, routed, published, raised, slotCount>>

vars == <<busVars, workerVars, routerVars>>

(***************************************************************************)
(* EventBus                                                                *)
(***************************************************************************)
\* `callback in list`
InList_Never(c, s) == FALSE

InList(c, s) == \E k \in 1..Len(s) : s[k] = c

\* list.remove(c): drops the first occurrence
RECURSIVE ListRemove(_, _)
ListRemove(s, c) ==
    IF s = <<>> THEN <<>>
    ELSE IF Head(s) = c THEN Tail(s)
    ELSE <<Head(s)>> \o ListRemove(Tail(s), c)

\* self._subscribers.get(topic, []): reads without creating the key
SubscribersGet(topic) ==
    IF topic \in DOMAIN subscribers THEN subscribers[topic] ELSE <<>>

\* self._subscribers[topic] on a defaultdict(list): creates the key
SubscribersItem(topic) ==
    IF topic \in DOMAIN subscribers THEN subscribers
    ELSE subscribers @@ (topic :> <<>>)

\* subscribe(topic, callback) on the registry subs: self._subscribers[topic]
\* creates the key, the callback is appended unless the list holds it
subscribe(subs, topic, callback) ==
    LET s == IF topic \in DOMAIN subs THEN subs ELSE subs @@ (topic :> <<>>)
    IN  IF ~InList(callback, s[topic])
        THEN [s EXCEPT ![topic] = Append(@, callback)]
        ELSE s

\* unsubscribe(topic, callback) on the registry subs: self._subscribers[topic]
\* creates the key, the callback is removed if the list holds it
unsubscribe(subs, topic, callback) ==
    LET s == IF topic \in DOMAIN subs THEN subs ELSE subs @@ (topic :> <<>>)
    IN  IF InList(callback, s[topic])
        THEN [s EXCEPT ![topic] = ListRemove(@, callback)]
        ELSE s

\* clear_topic(topic): self._subscribers.pop(topic, None)
clear_topic_All(subs, topic) == <<>>

clear_topic(subs, topic) == [t \in DOMAIN subs \ {topic} |-> subs[t]]

\* clear_all(): self._subscribers.clear()
clear_all(subs) == <<>>

\* get_topics(): list(self._subscribers.keys())
get_topics == DOMAIN subscribers

\* get_subscriber_count(topic): len(self._subscribers.get(topic, []))
get_subscriber_count(topic) == Len(SubscribersGet(topic))

\* self._lock = threading.RLock(): the thread that holds it may take it again
LockReentrant == TRUE

\* the `with self._lock:` of _notify_subscribers ends before the loop
\* `for callback in callbacks` begins
LockHeldByLoop == FALSE

\* a `with self._lock:` entered by a callback, on the context that runs the
\* loop, never gets the lock
LockBlocks == LockHeldByLoop /\ ~LockReentrant

\* the list `for callback in callbacks` of frame f iterates, the registry
\* being subs: the copy the frame took
LoopCallbacks_Live(f, subs) ==
    IF f.topic \in DOMAIN subs THEN subs[f.topic] ELSE <<>>

LoopCallbacks_SkipsRemoved(f, subs) ==
    LET Registered(c) == f.topic \in DOMAIN subs /\ InList(c, subs[f.topic])
    IN  SelectSeq(f.callbacks, Registered)

LoopCallbacks_Reversed(f, subs) ==
    [k \in 1..Len(f.callbacks) |-> f.callbacks[Len(f.callbacks) + 1 - k]]

LoopCallbacks(f, subs) == f.callbacks

\* `except Exception` around callback(data)
Catches_NoHandler(exc) == FALSE

Catches(exc) == exc = "Exception"

\* frames whose loop `for callback in callbacks` is over return to the caller
RECURSIVE ReturnWith(_, _)
ReturnWith(stk, subs) ==
    IF stk = <<>> THEN <<>>
    ELSE IF stk[Len(stk)].i > Len(LoopCallbacks(stk[Len(stk)], subs))
         THEN ReturnWith(SubSeq(stk, 1, Len(stk) - 1), subs)
         ELSE stk

Return(stk) == ReturnWith(stk, subscribers)

\* _notify_subscribers(topic, data) entered on a context: the snapshot of the
\* list is taken (under the lock) and the loop starts
NotifyFrame(topic, data) ==
    [topic |-> topic, data |-> data, callbacks |-> SubscribersGet(topic), i |-> 1]

BusInit ==
    /\ subscribers = <<>>
    /\ qtQueue = <<>>
    /\ stack = <<>>
    /\ pubs = <<>>
    /\ log = <<>>
    /\ changedAt = 0
    /\ escaped = FALSE
    /\ regCalls = 0
    /\ blocked = FALSE
    /\ resubscribed = FALSE

\* The emission of event_signal is delivered by a direct call when the
\* emitting thread is the thread of the bus, and is queued to it otherwise.
\* use_qt_signal=False is "use only if already in main thread": a producing
\* context always publishes with use_qt_signal=True.
IsDirect_Always(ctx, use_qt_signal) == TRUE

IsDirect(ctx, use_qt_signal) == ~use_qt_signal \/ ctx = "main"

\* publish(topic, data, use_qt_signal) called on context ctx, by the callback
\* handling event `from` (0: a top-level call). stk is the context's stack
\* as the call is made.
publish(ctx, topic, use_qt_signal, from, stk) ==
    LET data == Len(pubs) + 1
        direct == IsDirect(ctx, use_qt_signal)
    IN  /\ Len(pubs) < MaxPub
        /\ pubs' = Append(pubs, [topic |-> topic, ctx |-> ctx, from |-> from,
                                 snap |-> IF direct THEN SubscribersGet(topic)
                                          ELSE <<>>,
                                 on |-> IF direct THEN ctx ELSE "queued"])
        /\ IF direct
           THEN /\ stack' = Return(Append(stk, NotifyFrame(topic, data)))
                /\ qtQueue' = qtQueue
           ELSE /\ stack' = Return(stk)
                /\ qtQueue' = Append(qtQueue, [topic |-> topic, data |-> data])

Subscribe(topic, callback) ==
    /\ stack = <<>>
    /\ regCalls < MaxReg
    /\ regCalls' = regCalls + 1
    /\ subscribers' = subscribe(subscribers, topic, callback)
    /\ changedAt' = IF InList(callback, SubscribersGet(topic)) THEN changedAt
                    ELSE Len(pubs)
    /\ resubscribed' = (resubscribed \/ InList(callback, SubscribersGet(topic)))
    /\ UNCHANGED <<qtQueue, stack, pubs, log, escaped, blocked, workerVars, routerVars>>

Unsubscribe(topic, callback) ==
    /\ stack = <<>>
    /\ regCalls < MaxReg
    /\ regCalls' = regCalls + 1
    /\ subscribers' = unsubscribe(subscribers, topic, callback)
    /\ changedAt' = IF InList(callback, SubscribersGet(topic)) THEN Len(pubs)
                    ELSE changedAt
    /\ UNCHANGED <<qtQueue, stack, pubs, log, escaped, blocked, resubscribed,
                   workerVars, routerVars>>

\* a top-level publish call: from the consuming context between two events
\* of its loop, or from the producing context
Publish(ctx, topic, use_qt_signal) ==
    /\ ctx = "main" => stack = <<>>
    /\ ctx = "worker" => use_qt_signal
    /\ publish(ctx, topic, use_qt_signal, 0, stack)
    /\ UNCHANGED <<subscribers, log, changedAt, escaped, regCalls, blocked,
                   resubscribed, workerVars, routerVars>>

\* the consuming context's event loop takes the next queued emission
\* and runs _qt_event_handler
QtEventHandler ==
    /\ stack = <<>>
    /\ qtQueue # <<>>
    /\ stack' = Return(<<NotifyFrame(Head(qtQueue).topic, Head(qtQueue).data)>>)
    /\ qtQueue' = Tail(qtQueue)
    /\ pubs' = [pubs EXCEPT ![Head(qtQueue).data].snap =
                                 SubscribersGet(Head(qtQueue).topic),
                             ![Head(qtQueue).data].on = "main"]
    /\ UNCHANGED <<subscribers, log, changedAt, escaped, regCalls, blocked,
                   resubscribed, workerVars, routerVars>>

\* one turn of `for callback in callbacks` in _notify_subscribers
Invoke(outcome, topic, use_qt_signal) ==
    /\ stack # <<>>
    /\ LET n == Len(stack)
           f == stack[n]
           cb == LoopCallbacks(f, subscribers)[f.i]
           next == [stack EXCEPT ![n].i = f.i + 1]
       IN  /\ log' = Append(log, [cb |-> cb, topic |-> f.topic, data |-> f.data,
                                  outcome |-> outcome])
           /\ CASE outcome = "return" ->
                     /\ stack' = Return(next)
                     /\ UNCHANGED <<qtQueue, pubs, escaped>>
                [] outcome = "raise" ->
                     IF Catches("Exception")
                     THEN /\ stack' = Return(next)
                          /\ UNCHANGED <<qtQueue, pubs, escaped>>
                     ELSE \* the exception unwinds every caller on the context
                          /\ stack' = <<>>
                          /\ escaped' = TRUE
                          /\ UNCHANGED <<qtQueue, pubs>>
                [] outcome = "publish" ->
                     /\ publish("main", topic, use_qt_signal, f.data, next)
                     /\ UNCHANGED escaped
    /\ UNCHANGED <<subscribers, changedAt, regCalls, blocked, resubscribed>>
    /\ UNCHANGED <<workerVars, routerVars>>

\* clear_topic(topic), called between two events of the consuming context
ClearTopic(topic) ==
    /\ stack = <<>>
    /\ regCalls < MaxReg
    /\ regCalls' = regCalls + 1
    /\ subscribers' = clear_topic(subscribers, topic)
    /\ changedAt' = IF SubscribersGet(topic) # <<>> THEN Len(pubs) ELSE changedAt
    /\ UNCHANGED <<qtQueue, stack, pubs, log, escaped, blocked, resubscribed,
                   workerVars, routerVars>>

\* clear_all(), called between two events of the consuming context
ClearAll ==
    /\ stack = <<>>
    /\ regCalls < MaxReg
    /\ regCalls' = regCalls + 1
    /\ subscribers' = clear_all(subscribers)
    /\ changedAt' = IF \E t \in DOMAIN subscribers : subscribers[t] # <<>>
                    THEN Len(pubs) ELSE changedAt
    /\ UNCHANGED <<qtQueue, stack, pubs, log, escaped, blocked, resubscribed,
                   workerVars, routerVars>>

\* the calls a callback may make on the registry of the bus
RegistryOps == {"subscribe", "unsubscribe", "clear_topic", "clear_all"}

\* the registry after the call op(topic, callback)
RegistryCall(op, subs, topic, callback) ==
    CASE op = "subscribe" -> subscribe(subs, topic, callback)
      [] op = "unsubscribe" -> unsubscribe(subs, topic, callback)
      [] op = "clear_topic" -> clear_topic(subs, topic)
      [] op = "clear_all" -> clear_all(subs)

\* one turn of `for callback in callbacks` in which the callback calls
\* subscribe, unsubscribe, clear_topic or clear_all on the bus and returns.
\* The call enters `with self._lock:`; a callback that never gets the lock
\* never returns.
InvokeRegistry(op, topic, callback) ==
    /\ stack # <<>>
    /\ ~blocked
    /\ regCalls < MaxReg
    /\ regCalls' = regCalls + 1
    /\ LET n == Len(stack)
           f == stack[n]
           cb == LoopCallbacks(f, subscribers)[f.i]
           next == [stack EXCEPT ![n].i = f.i + 1]
           subs == RegistryCall(op, subscribers, topic, callback)
       IN  /\ log' = Append(log, [cb |-> cb, topic |-> f.topic, data |-> f.data,
                                  outcome |-> op])
           /\ IF LockBlocks
              THEN /\ blocked' = TRUE
                   /\ UNCHANGED <<subscribers, stack, changedAt, resubscribed>>
              ELSE /\ blocked' = FALSE
                   /\ subscribers' = subs
                   /\ stack' = ReturnWith(next, subs)
                   /\ changedAt' = IF subs = subscribers THEN changedAt
                                    ELSE Len(pubs)
                   /\ resubscribed' =
                         (resubscribed \/ (op = "subscribe"
                                             /\ InList(callback, SubscribersGet(topic))))
    /\ UNCHANGED <<qtQueue, pubs, escaped, workerVars, routerVars>>

BusNext ==
    \/ \E t \in Topics, c \in Callbacks : Subscribe(t, c)
    \/ \E t \in Topics, c \in Callbacks : Unsubscribe(t, c)
    \/ \E x \in Contexts, t \in Topics, q \in BOOLEAN : Publish(x, t, q)
    \/ QtEventHandler
    \/ Invoke("return", "sensor.gas", TRUE)
    \/ Invoke("raise", "sensor.gas", TRUE)
    \/ \E t \in Topics, q \in BOOLEAN : Invoke("publish", t, q)

\* the registry and the deliveries: every call of the registry, from the
\* consuming context between two events and from a callback during a delivery
RegistryNext ==
    \/ \E t \in Topics, c \in Callbacks : Subscribe(t, c)
    \/ \E t \in Topics, c \in Callbacks : Unsubscribe(t, c)
    \/ \E t \in Topics : ClearTopic(t)
    \/ ClearAll
    \/ \E x \in Contexts, t \in Topics : Publish(x, t, TRUE)
    \/ QtEventHandler
    \/ Invoke("return", "sensor.gas", TRUE)
    \/ \E op \in RegistryOps, t \in Topics, c \in Callbacks : InvokeRegistry(op, t, c)

(***************************************************************************)
(* The wire of the stream transport.  A byte of the model stands for a run *)
(* of bytes of the wire: "{" and "}" open and close a JSON object, "g" is  *)
(* the member "type":"gas", "t" the member "type":"temperature", "1" a     *)
(* digit (after "g" in an object: the member "value":1), "z" a letter (no  *)
(* JSON text), "x80" a byte that is no UTF-8 (a lone continuation byte)    *)
(* and "nl" the newline.                                                   *)
(***************************************************************************)
NL == "nl"

\* lines a peer sends: two objects, an object with no member, a JSON number,
\* a text that is no JSON, a line that is no UTF-8
WireLines == { <<"{", "g", "}">>, <<"{", "t", "}">>, <<"{", "}">>,
               <<"1">>, <<"z">>, <<"x80">> }

\* what the peer may have sent after its last newline
WireTails == { <<>>, <<"{">>, <<"{", "g">>, <<"1">>, <<"x80">> }

RECURSIVE Concat(_)
Concat(ss) == IF ss = <<>> THEN <<>> ELSE Head(ss) \o <<NL>> \o Concat(Tail(ss))

\* the streams of at most n newline-terminated lines and a tail
Wires(n) ==
    { Concat(ls) \o tl : ls \in UNION { [1..k -> WireLines] : k \in 0..n },
                         tl \in WireTails }

\* bytes.decode('utf-8'): fails on a byte sequence that is no UTF-8
Utf8Decodes(line) == \A k \in 1..Len(line) : line[k] # "x80"

\* json.loads(text): the value of a JSON text, or JSONDecodeError
JsonLoads(text) ==
    IF text = <<"{", "}">> THEN [kind |-> "dict", value |-> <<>>]
    ELSE IF text = <<"{", "g", "}">> THEN [kind |-> "dict", value |-> [type |-> "gas"]]
    ELSE IF text = <<"{", "t", "}">>
         THEN [kind |-> "dict", value |-> [type |-> "temperature"]]
    ELSE IF text = <<"{", "g", "1", "}">>
         THEN [kind |-> "dict", value |-> [type |-> "gas", value |-> 1]]
    ELSE IF text # <<>> /\ \A k \in 1..Len(text) : text[k] = "1"
         THEN [kind |-> "int", value |-> Len(text)]
    ELSE [kind |-> "JSONDecodeError", value |-> <<>>]

\* the place of the first newline of buf, 0 when it holds none
RECURSIVE Find(_, _)
Find(buf, k) ==
    IF k > Len(buf) THEN 0 ELSE IF buf[k] = NL THEN k ELSE Find(buf, k + 1)

\* the exception, if any, that handling one line raises into the receive
\* loop: message = json.loads(line.decode('utf-8')); data_received.emit(message)
\* under `except json.JSONDecodeError: pass`.  data_received is
\* pyqtSignal(dict): emit raises TypeError for a value that is no dict.
LineRaises(line) ==
    IF ~Utf8Decodes(line) THEN "UnicodeDecodeError"
    ELSE IF JsonLoads(line).kind = "JSONDecodeError" THEN "none"
    ELSE IF JsonLoads(line).kind # "dict" THEN "TypeError"
    ELSE "none"

\* whether handling the line emits data_received
LineEmits(line) ==
    /\ Utf8Decodes(line)
    /\ JsonLoads(line).kind = "dict"

\* `while b'\n' in buffer: line, buffer = buffer.split(b'\n', 1) ...`:
\* the buffer left, the messages emitted and the exception that ended it
RECURSIVE ProcessBuffer_NewestFirst(_, _)
ProcessBuffer_NewestFirst(buf, out) ==
    LET k == Find(buf, 1)
        line == SubSeq(buf, 1, k - 1)
        rest == SubSeq(buf, k + 1, Len(buf))
    IN  IF k = 0 THEN [buffer |-> buf, out |-> out, exc |-> "none"]
        ELSE IF LineRaises(line) # "none"
             THEN [buffer |-> rest, out |-> out, exc |-> LineRaises(line)]
        ELSE IF LineEmits(line)
             THEN ProcessBuffer_NewestFirst(rest, <<JsonLoads(line).value>> \o out)
        ELSE ProcessBuffer_NewestFirst(rest, out)

RECURSIVE ProcessBuffer(_, _)
ProcessBuffer(buf, out) ==
    LET k == Find(buf, 1)
        line == SubSeq(buf, 1, k - 1)
        rest == SubSeq(buf, k + 1, Len(buf))
    IN  IF k = 0 THEN [buffer |-> buf, out |-> out, exc |-> "none"]
        ELSE IF LineRaises(line) # "none"
             THEN [buffer |-> rest, out |-> out, exc |-> LineRaises(line)]
        ELSE IF LineEmits(line)
             THEN ProcessBuffer(rest, Append(out, JsonLoads(line).value))
        ELSE ProcessBuffer(rest, out)

(***************************************************************************)
(* NetworkWorker (stream transport) on the worker thread                   *)
(***************************************************************************)
\* connection attempts counted by the history variable attempts
MaxAttempts == 2
\* error_occurred emissions counted by the history variable errorCount
MaxErrors == 2

\* one more emission of error_occurred
Emitted(n) == IF n < MaxErrors THEN n + 1 ELSE n

\* no send_data call was made.  phase: "none", "checked" (the call is past
\* its test of connected and socket) or "returned"; wpc, mpc: where the two
\* threads were when the call was made; sock, sockSend: the state of the
\* socket when the call was made and when the call sent on it
NoSend == [phase |-> "none", wpc |-> "none", mpc |-> "none", sock |-> "none",
           sockSend |-> "none", result |-> FALSE, raised |-> FALSE,
           wrote |-> FALSE]

\* values of the configuration: a dict, or a value that is no dict
Dict(f) == [dict |-> f]
Leaf(x) == [leaf |-> x]

\* ConfigManager._get_default_config(): the ui and network sections
get_default_config ==
    Dict([ui |-> Dict([theme |-> Leaf("dark")]),
          network |-> Dict([esp32_ip |-> Leaf("192.168.1.100"),
                            port |-> Leaf(8080),
                            protocol |-> Leaf("websocket")])])

\* a configuration whose network section the user has set
UserConfig(ip, p, proto) ==
    Dict([ui |-> Dict([theme |-> Leaf("dark")]),
          network |-> Dict([esp32_ip |-> Leaf(ip), port |-> Leaf(p),
                            protocol |-> Leaf(proto)])])

\* ConfigManager.get(key, default), keys being key.split('.'): the walk
\* `for k in keys` from value
RECURSIVE ConfigGet(_, _, _)
ConfigGet(value, keys, default) ==
    IF keys = <<>> THEN value
    ELSE IF "dict" \in DOMAIN value /\ Head(keys) \in DOMAIN value.dict
         THEN ConfigGet(value.dict[Head(keys)], Tail(keys), default)
    ELSE default

\* NetworkManager.setup_worker: the arguments of NetworkWorker(host, port, protocol)
setup_worker(cfg) ==
    [host |-> ConfigGet(cfg, <<"network", "esp32_ip">>, Leaf("192.168.1.100")).leaf,
     port |-> ConfigGet(cfg, <<"network", "port">>, Leaf(8080)).leaf,
     protocol |-> ConfigGet(cfg, <<"network", "protocol">>, Leaf("tcp")).leaf]

\* NetworkManager.__init__ with the configuration cfg
Configured(cfg) ==
    /\ config = cfg
    /\ host = setup_worker(cfg).host
    /\ port = setup_worker(cfg).port
    /\ protocol = setup_worker(cfg).protocol

\* the configuration with which the worker has the protocol string proto
ConfigWith(proto) == UserConfig("192.168.1.100", 8080, proto)

\* no loop has run and start was called at most once
HistInit ==
    /\ carry = <<>>
    /\ timedOut = "no"
    /\ loops = 0
    /\ startsAgain = [noop |-> 0, restart |-> 0]

WorkerInit ==
    /\ running = FALSE
    /\ connected = FALSE
    /\ socket = "none"
    /\ wpc = "not_started"
    /\ buffer = <<>>
    /\ mpc = "constructed"
    /\ quit = FALSE
    /\ lastStatus = "none"
    /\ lastError = "none"
    /\ wire = <<>>
    /\ rx = <<>>
    /\ dataOut = <<>>
    /\ left = "none"
    /\ attempts = 0
    /\ Configured(ConfigWith("tcp"))
    /\ errorCount = 0
    /\ sent = NoSend
    /\ HistInit

envVars == <<script, mpc, quit, protocol, sent, config, host, port, startsAgain,
            busVars, routerVars>>

\* str.lower() of a protocol string (NetworkWorker.__init__)
Lower(p) == IF p = "TCP" THEN "tcp" ELSE IF p = "UDP" THEN "udp" ELSE p

\* the branch NetworkWorker.start takes
ProtocolBranch_DefaultTcp(p) == IF Lower(p) = "udp" THEN "udp" ELSE "tcp"

ProtocolBranch(p) ==
    IF Lower(p) = "tcp" THEN "tcp"
    ELSE IF Lower(p) = "udp" THEN "udp"
    ELSE "unsupported"

\* NetworkWorker.start: self.running = True, then run_tcp(), run_udp() or
\* the else branch
Worker_start ==
    /\ wpc = "start"
    /\ running' = TRUE
    /\ wpc' = CASE ProtocolBranch(protocol) = "tcp" -> "while"
                [] ProtocolBranch(protocol) = "udp" -> "udp_create"
                [] OTHER -> "unsupported"
    /\ loops' = IF ProtocolBranch(protocol) \in {"tcp", "udp"} THEN loops + 1
                ELSE loops
    /\ UNCHANGED <<connected, socket, buffer, lastStatus, lastError, errorCount, wire, rx,
                   dataOut, left, attempts, carry, timedOut, envVars>>

\* run_tcp: `while self.running:`
Tcp_while ==
    /\ wpc = "while"
    /\ wpc' = IF running THEN "create" ELSE "exited"
    /\ loops' = IF running THEN loops ELSE loops - 1
    /\ UNCHANGED <<running, connected, socket, buffer, lastStatus, lastError, errorCount,
                   wire, rx, dataOut, left, attempts, carry, timedOut, envVars>>

\* self.socket = socket.socket(...); self.socket.settimeout(5.0)
Tcp_create ==
    /\ wpc = "create"
    /\ socket' = "open"
    /\ wpc' = "connect"
    /\ attempts' = IF attempts < MaxAttempts THEN attempts + 1 ELSE attempts
    /\ UNCHANGED <<running, connected, buffer, lastStatus, lastError, errorCount, wire, rx,
                   dataOut, left, carry, timedOut, loops,
                   envVars>>

\* self.socket.connect((host, port)) returns: the peer accepted
Tcp_connect_ok ==
    /\ wpc = "connect"
    /\ socket = "open"
    /\ socket' = "connected"
    /\ wire' = script
    /\ wpc' = "set_connected"
    /\ UNCHANGED <<running, connected, buffer, lastStatus, lastError, errorCount, rx,
                   dataOut, left, attempts, carry, timedOut, loops,
                   envVars>>

\* self.socket.connect raises: refused, timed out, or the socket was closed
Tcp_connect_fails ==
    /\ wpc = "connect"
    /\ wpc' = "except_conn"
    /\ UNCHANGED <<running, connected, socket, buffer, lastStatus, lastError, errorCount,
                   wire, rx, dataOut, left, attempts, carry, timedOut, loops,
                   envVars>>

\* self.connected = True
Tcp_set_connected ==
    /\ wpc = "set_connected"
    /\ connected' = TRUE
    /\ wpc' = "emit_connected"
    /\ UNCHANGED <<running, socket, buffer, lastStatus, lastError, errorCount, wire, rx,
                   dataOut, left, attempts, carry, timedOut, loops,
                   envVars>>

\* connection_status_changed.emit({'connected': True, ...}); buffer = b''
Tcp_emit_connected_KeepsBuffer ==
    /\ wpc = "emit_connected"
    /\ lastStatus' = "connected"
    /\ rx' = <<>>
    /\ dataOut' = <<>>
    /\ left' = "none"
    /\ carry' = buffer
    /\ timedOut' = "no"
    /\ wpc' = "recv_test"
    /\ UNCHANGED <<running, connected, socket, buffer, lastError, errorCount, wire,
                   attempts, loops, envVars>>

Tcp_emit_connected ==
    /\ wpc = "emit_connected"
    /\ lastStatus' = "connected"
    /\ buffer' = <<>>
    /\ rx' = <<>>
    /\ dataOut' = <<>>
    /\ left' = "none"
    /\ carry' = buffer
    /\ timedOut' = "no"
    /\ wpc' = "recv_test"
    /\ UNCHANGED <<running, connected, socket, lastError, errorCount, wire, attempts,
                   loops, envVars>>

\* `while self.running and self.connected:`
Tcp_recv_test ==
    /\ wpc = "recv_test"
    /\ IF running /\ connected
       THEN wpc' = "recv" /\ left' = left
       ELSE wpc' = "finally" /\ left' = "flag"
    /\ UNCHANGED <<running, connected, socket, buffer, lastStatus, lastError, errorCount,
                   wire, rx, dataOut, attempts, carry, timedOut, loops,
                   envVars>>

\* data = self.socket.recv(4096) returns n bytes; buffer += data; the lines
\* the buffer holds are handled
Tcp_recv_data(n) ==
    /\ wpc = "recv"
    /\ socket = "connected"
    /\ n \in 1..Len(wire)
    /\ LET data == SubSeq(wire, 1, n)
           r == ProcessBuffer(buffer \o data, dataOut)
       IN  /\ wire' = SubSeq(wire, n + 1, Len(wire))
           /\ rx' = rx \o data
           /\ buffer' = r.buffer
           /\ dataOut' = r.out
           /\ IF r.exc = "none"
              THEN wpc' = "recv_test" /\ left' = left
              ELSE wpc' = "except_recv" /\ left' = r.exc
           /\ timedOut' = IF timedOut = "partial" /\ Find(buffer \o data, 1) # 0
                           THEN "joined" ELSE timedOut
    /\ UNCHANGED <<running, connected, socket, lastStatus, lastError, errorCount, attempts,
                   carry, loops, envVars>>

\* recv raises socket.timeout: `continue`
Tcp_recv_timeout_DropsBuffer ==
    /\ wpc = "recv"
    /\ wpc' = "recv_test"
    /\ buffer' = <<>>
    /\ timedOut' = IF buffer # <<>> /\ timedOut = "no" THEN "partial" ELSE timedOut
    /\ UNCHANGED <<running, connected, socket, lastStatus, lastError, errorCount,
                   wire, rx, dataOut, left, attempts, carry, loops, envVars>>

Tcp_recv_timeout ==
    /\ wpc = "recv"
    /\ wpc' = "recv_test"
    /\ timedOut' = IF buffer # <<>> /\ timedOut = "no" THEN "partial" ELSE timedOut
    /\ UNCHANGED <<running, connected, socket, buffer, lastStatus, lastError, errorCount,
                   wire, rx, dataOut, left, attempts, carry, loops, envVars>>

\* recv returns b'': the peer closed the connection; `break`
Tcp_recv_empty ==
    /\ wpc = "recv"
    /\ socket = "connected"
    /\ wire = <<>>
    /\ wpc' = "finally"
    /\ left' = "peer_close"
    /\ UNCHANGED <<running, connected, socket, buffer, lastStatus, lastError, errorCount,
                   wire, rx, dataOut, attempts, carry, timedOut, loops,
                   envVars>>

\* recv raises OSError: the connection was reset, or the socket was closed
Tcp_recv_error ==
    /\ wpc = "recv"
    /\ wpc' = "except_recv"
    /\ left' = "OSError"
    /\ UNCHANGED <<running, connected, socket, buffer, lastStatus, lastError, errorCount,
                   wire, rx, dataOut, attempts, carry, timedOut, loops,
                   envVars>>

\* `except Exception as e:` of the receive loop: error_occurred.emit; break
Tcp_except_recv ==
    /\ wpc = "except_recv"
    /\ lastError' = "Receive error"
    /\ errorCount' = Emitted(errorCount)
    /\ wpc' = "finally"
    /\ UNCHANGED <<running, connected, socket, buffer, lastStatus, wire, rx,
                   dataOut, left, attempts, carry, timedOut, loops,
                   envVars>>

\* `except Exception as e:` of the connection: error_occurred.emit;
\* self.connected = False; connection_status_changed.emit({'connected': False})
Tcp_except_conn ==
    /\ wpc = "except_conn"
    /\ lastError' = "Connection error"
    /\ errorCount' = Emitted(errorCount)
    /\ connected' = FALSE
    /\ lastStatus' = "disconnected"
    /\ wpc' = "finally"
    /\ UNCHANGED <<running, socket, buffer, wire, rx, dataOut, left, attempts,
                   carry, timedOut, loops,
                   envVars>>

\* `finally: if self.socket: self.socket.close()`
Tcp_finally ==
    /\ wpc = "finally"
    /\ socket' = IF socket = "none" THEN "none" ELSE "closed"
    /\ wpc' = "sleep_test"
    /\ UNCHANGED <<running, connected, buffer, lastStatus, lastError, errorCount, wire, rx,
                   dataOut, left, attempts, carry, timedOut, loops,
                   envVars>>

\* `if self.running:` before the reconnect wait
Tcp_sleep_test_GivesUp ==
    /\ wpc = "sleep_test"
    /\ wpc' = "exited"
    /\ UNCHANGED <<running, connected, socket, buffer, lastStatus, lastError,
                   errorCount, wire, rx, dataOut, left, attempts, carry, timedOut, loops,
                   envVars>>

Tcp_sleep_test ==
    /\ wpc = "sleep_test"
    /\ wpc' = IF running THEN "sleep" ELSE "while"
    /\ UNCHANGED <<running, connected, socket, buffer, lastStatus, lastError, errorCount,
                   wire, rx, dataOut, left, attempts, carry, timedOut, loops,
                   envVars>>

\* time.sleep(5) returns
Tcp_sleep ==
    /\ wpc = "sleep"
    /\ wpc' = "while"
    /\ UNCHANGED <<running, connected, socket, buffer, lastStatus, lastError, errorCount,
                   wire, rx, dataOut, left, attempts, carry, timedOut, loops,
                   envVars>>

\* NetworkWorker.start has returned: the thread runs its event loop, which
\* returns once quit() was called, and the thread finishes
Thread_exec ==
    /\ wpc = "exited"
    /\ quit
    /\ wpc' = "finished"
    /\ UNCHANGED <<running, connected, socket, buffer, lastStatus, lastError, errorCount,
                   wire, rx, dataOut, left, attempts, carry, timedOut, loops,
                   envVars>>

\* NetworkWorker.start, else branch: error_occurred.emit("Unsupported
\* protocol: ..."); start returns
Start_unsupported ==
    /\ wpc = "unsupported"
    /\ lastError' = "Unsupported protocol"
    /\ errorCount' = Emitted(errorCount)
    /\ wpc' = "exited"
    /\ UNCHANGED <<running, connected, socket, buffer, lastStatus, wire, rx,
                   dataOut, left, attempts, carry, timedOut, loops,
                   envVars>>

WorkerStep ==
    \/ Worker_start
    \/ Tcp_while
    \/ Tcp_create
    \/ Tcp_connect_ok
    \/ Tcp_connect_fails
    \/ Tcp_set_connected
    \/ Tcp_emit_connected
    \/ Tcp_recv_test
    \/ \E n \in 1..Len(wire) : Tcp_recv_data(n)
    \/ Tcp_recv_timeout
    \/ Tcp_recv_empty
    \/ Tcp_recv_error
    \/ Tcp_except_recv
    \/ Tcp_except_conn
    \/ Tcp_finally
    \/ Tcp_sleep_test
    \/ Tcp_sleep
    \/ Thread_exec

(***************************************************************************)
(* NetworkWorker (datagram transport) on the worker thread                 *)
(***************************************************************************)
\* datagrams with a JSON object received in one run
MaxDatagrams == 2

\* self.socket = socket.socket(socket.AF_INET, socket.SOCK_DGRAM)
Udp_create ==
    /\ wpc = "udp_create"
    /\ socket' = "open"
    /\ attempts' = IF attempts < MaxAttempts THEN attempts + 1 ELSE attempts
    /\ wpc' = "udp_bind"
    /\ UNCHANGED <<running, connected, buffer, lastStatus, lastError, errorCount,
                   wire, rx, dataOut, left, carry, timedOut, loops,
                   envVars>>

\* self.socket.bind(('0.0.0.0', self.port)); self.socket.settimeout(1.0)
Udp_bind_ok ==
    /\ wpc = "udp_bind"
    /\ socket = "open"
    /\ socket' = "bound"
    /\ wpc' = "udp_set_connected"
    /\ UNCHANGED <<running, connected, buffer, lastStatus, lastError, errorCount,
                   wire, rx, dataOut, left, attempts, carry, timedOut, loops,
                   envVars>>

\* bind raises: the port is in use, or the socket was closed
Udp_bind_fails ==
    /\ wpc = "udp_bind"
    /\ left' = "bind_error"
    /\ wpc' = "udp_except_setup"
    /\ UNCHANGED <<running, connected, socket, buffer, lastStatus, lastError,
                   errorCount, wire, rx, dataOut, attempts, carry, timedOut, loops,
                   envVars>>

\* self.connected = True
Udp_set_connected ==
    /\ wpc = "udp_set_connected"
    /\ connected' = TRUE
    /\ wpc' = "udp_emit_connected"
    /\ UNCHANGED <<running, socket, buffer, lastStatus, lastError, errorCount,
                   wire, rx, dataOut, left, attempts, carry, timedOut, loops,
                   envVars>>

\* connection_status_changed.emit({'connected': True, 'protocol': 'UDP', ...})
Udp_emit_connected ==
    /\ wpc = "udp_emit_connected"
    /\ lastStatus' = "connected"
    /\ wpc' = "udp_while"
    /\ UNCHANGED <<running, connected, socket, buffer, lastError, errorCount,
                   wire, rx, dataOut, left, attempts, carry, timedOut, loops,
                   envVars>>

\* run_udp: `while self.running:`
Udp_while ==
    /\ wpc = "udp_while"
    /\ wpc' = IF running THEN "udp_recv" ELSE "udp_finally"
    /\ UNCHANGED <<running, connected, socket, buffer, lastStatus, lastError,
                   errorCount, wire, rx, dataOut, left, attempts, carry, timedOut, loops,
                   envVars>>

\* data, addr = self.socket.recvfrom(4096) returns a datagram, which is
\* decoded and emitted under `except json.JSONDecodeError: pass`
Udp_recv_data(datagram) ==
    /\ wpc = "udp_recv"
    /\ socket = "bound"
    /\ LineEmits(datagram) => Len(dataOut) < MaxDatagrams
    /\ dataOut' = IF LineRaises(datagram) = "none" /\ LineEmits(datagram)
                  THEN Append(dataOut, JsonLoads(datagram).value)
                  ELSE dataOut
    /\ left' = LineRaises(datagram)
    /\ wpc' = IF LineRaises(datagram) = "none" THEN "udp_while"
              ELSE "udp_except_recv"
    /\ UNCHANGED <<running, connected, socket, buffer, lastStatus, lastError,
                   errorCount, wire, rx, attempts, carry, timedOut, loops,
                   envVars>>

\* recvfrom raises socket.timeout: `continue`
Udp_recv_timeout_IsError ==
    /\ wpc = "udp_recv"
    /\ wpc' = "udp_except_recv"
    /\ UNCHANGED <<running, connected, socket, buffer, lastStatus, lastError,
                   errorCount, wire, rx, dataOut, left, attempts, carry, timedOut, loops,
                   envVars>>

Udp_recv_timeout ==
    /\ wpc = "udp_recv"
    /\ wpc' = "udp_while"
    /\ UNCHANGED <<running, connected, socket, buffer, lastStatus, lastError,
                   errorCount, wire, rx, dataOut, left, attempts, carry, timedOut, loops,
                   envVars>>

\* recvfrom raises OSError (the socket was closed, for one)
Udp_recv_error ==
    /\ wpc = "udp_recv"
    /\ left' = "OSError"
    /\ wpc' = "udp_except_recv"
    /\ UNCHANGED <<running, connected, socket, buffer, lastStatus, lastError,
                   errorCount, wire, rx, dataOut, attempts, carry, timedOut, loops,
                   envVars>>

\* `except Exception as e:` of the receive loop: error_occurred.emit; the
\* loop goes on
Udp_except_recv ==
    /\ wpc = "udp_except_recv"
    /\ lastError' = "Receive error"
    /\ errorCount' = Emitted(errorCount)
    /\ wpc' = "udp_while"
    /\ UNCHANGED <<running, connected, socket, buffer, lastStatus, wire, rx,
                   dataOut, left, attempts, carry, timedOut, loops,
                   envVars>>

\* `except Exception as e:` of run_udp: error_occurred.emit("UDP setup error")
Udp_except_setup ==
    /\ wpc = "udp_except_setup"
    /\ lastError' = "UDP setup error"
    /\ errorCount' = Emitted(errorCount)
    /\ wpc' = "udp_finally"
    /\ UNCHANGED <<running, connected, socket, buffer, lastStatus, wire, rx,
                   dataOut, left, attempts, carry, timedOut, loops,
                   envVars>>

\* `finally: if self.socket: self.socket.close()`
Udp_finally ==
    /\ wpc = "udp_finally"
    /\ socket' = IF socket = "none" THEN "none" ELSE "closed"
    /\ wpc' = "udp_finally_connected"
    /\ UNCHANGED <<running, connected, buffer, lastStatus, lastError, errorCount,
                   wire, rx, dataOut, left, attempts, carry, timedOut, loops,
                   envVars>>

\* self.connected = False
Udp_finally_connected ==
    /\ wpc = "udp_finally_connected"
    /\ connected' = FALSE
    /\ wpc' = "udp_finally_emit"
    /\ UNCHANGED <<running, socket, buffer, lastStatus, lastError, errorCount,
                   wire, rx, dataOut, left, attempts, carry, timedOut, loops,
                   envVars>>

\* self.connection_status_changed.emit({'connected': False}); run_udp and
\* NetworkWorker.start return
Udp_finally_emit ==
    /\ wpc = "udp_finally_emit"
    /\ lastStatus' = "disconnected"
    /\ wpc' = "exited"
    /\ loops' = loops - 1
    /\ UNCHANGED <<running, connected, socket, buffer, lastError, errorCount,
                   wire, rx, dataOut, left, attempts, carry, timedOut, envVars>>

UdpStep ==
    \/ Udp_create
    \/ Udp_bind_ok
    \/ Udp_bind_fails
    \/ Udp_set_connected
    \/ Udp_emit_connected
    \/ Udp_while
    \/ \E d \in WireLines : Udp_recv_data(d)
    \/ Udp_recv_timeout
    \/ Udp_recv_error
    \/ Udp_except_recv
    \/ Udp_except_setup
    \/ Udp_finally
    \/ Udp_finally_connected
    \/ Udp_finally_emit

(***************************************************************************)
(* NetworkManager and NetworkWorker.stop on the main thread                *)
(***************************************************************************)
mainUnchanged == <<buffer, lastError, errorCount, script, wire, rx, dataOut, left,
                   attempts, protocol, sent, config, host, port, carry, timedOut,
                   loops, startsAgain, busVars, routerVars>>

\* NetworkManager.start: self.worker_thread.start(); the thread's started
\* signal runs NetworkWorker.start on the worker thread
Manager_start ==
    /\ mpc = "constructed"
    /\ mpc' = "started"
    /\ wpc' = "start"
    /\ UNCHANGED <<running, connected, socket, quit, lastStatus, mainUnchanged>>

\* NetworkManager.stop calls self.worker.stop(): self.running = False
Stop_running ==
    /\ mpc = "started"
    /\ running' = FALSE
    /\ mpc' = "stop_close"
    /\ UNCHANGED <<connected, socket, wpc, quit, lastStatus, mainUnchanged>>

\* if self.socket: self.socket.close()
Stop_close ==
    /\ mpc = "stop_close"
    /\ socket' = IF socket = "none" THEN "none" ELSE "closed"
    /\ mpc' = "stop_connected"
    /\ UNCHANGED <<running, connected, wpc, quit, lastStatus, mainUnchanged>>

\* self.connected = False
Stop_connected ==
    /\ mpc = "stop_connected"
    /\ connected' = FALSE
    /\ mpc' = "stop_emit"
    /\ UNCHANGED <<running, socket, wpc, quit, lastStatus, mainUnchanged>>

\* self.connection_status_changed.emit({'connected': False})
Stop_emit ==
    /\ mpc = "stop_emit"
    /\ lastStatus' = "disconnected"
    /\ mpc' = "quit"
    /\ UNCHANGED <<running, connected, socket, wpc, quit, mainUnchanged>>

\* self.worker_thread.quit()
Manager_quit ==
    /\ mpc = "quit"
    /\ quit' = TRUE
    /\ mpc' = "wait"
    /\ UNCHANGED <<running, connected, socket, wpc, lastStatus, mainUnchanged>>

\* self.worker_thread.wait() returns: the thread has finished
Manager_wait ==
    /\ mpc = "wait"
    /\ wpc = "finished"
    /\ mpc' = "returned"
    /\ UNCHANGED <<running, connected, socket, wpc, quit, lastStatus, mainUnchanged>>

\* calls of NetworkManager.start made after the first in one behaviour
MaxStarts == 2

\* QThread.isRunning() of worker_thread: started and not yet finished
isRunning_Never == FALSE

isRunning == wpc \notin {"not_started", "finished"}

\* NetworkManager.start called again, the main thread being outside stop:
\* self.worker_thread.start() does nothing when the thread is running, and
\* starts the thread again when it has finished: the started signal runs
\* NetworkWorker.start on it once more
Manager_start_again ==
    /\ mpc \in {"started", "returned"}
    /\ startsAgain.noop + startsAgain.restart < MaxStarts
    /\ IF isRunning
       THEN /\ startsAgain' = [startsAgain EXCEPT !.noop = @ + 1]
            /\ UNCHANGED <<mpc, wpc, quit>>
       ELSE /\ startsAgain' = [startsAgain EXCEPT !.restart = @ + 1]
            /\ mpc' = "started"
            /\ wpc' = "start"
            /\ quit' = FALSE
    /\ UNCHANGED <<running, connected, socket, buffer, lastStatus, lastError,
                   errorCount, script, wire, rx, dataOut, left, attempts, protocol,
                   sent, config, host, port, carry, timedOut, loops, busVars,
                   routerVars>>

\* NetworkManager.stop called while the thread is not running (before the
\* first start, or after a stop that has returned): NetworkWorker.stop runs,
\* quit() finds no event loop and wait() returns at once
Manager_stop_idle ==
    /\ mpc \in {"constructed", "returned"}
    /\ ~isRunning
    /\ running' = FALSE
    /\ socket' = IF socket = "none" THEN "none" ELSE "closed"
    /\ connected' = FALSE
    /\ lastStatus' = "disconnected"
    /\ UNCHANGED <<mpc, wpc, quit, mainUnchanged>>

MainStep ==
    \/ Manager_start
    \/ Stop_running
    \/ Stop_close
    \/ Stop_connected
    \/ Stop_emit
    \/ Manager_quit
    \/ Manager_wait

(***************************************************************************)
(* NetworkWorker.send_data, called on the main thread (send_command)       *)
(***************************************************************************)
\* `except Exception as e:` of send_data
SendCatches(exc) == exc \in {"OSError", "TypeError"}

\* self.socket.send(bytes) on a socket in state sock: the bytes are written,
\* or OSError is raised (the socket is closed or not connected; on a
\* connected socket, the peer reset the connection or the send timed out)
SocketSend(sock) ==
    IF sock = "connected" THEN {"written", "OSError"} ELSE {"OSError"}

\* `if not self.connected or not self.socket: return False`
Send_check ==
    /\ mpc \in {"constructed", "started", "returned"}
    /\ IF ~connected \/ socket = "none"
       THEN /\ sent' = [phase |-> "returned", wpc |-> wpc, mpc |-> mpc,
                        sock |-> socket, sockSend |-> "none", result |-> FALSE,
                        raised |-> FALSE, wrote |-> FALSE]
            /\ mpc' = mpc
       ELSE /\ sent' = [phase |-> "checked", wpc |-> wpc, mpc |-> mpc,
                        sock |-> socket, sockSend |-> "none", result |-> FALSE,
                        raised |-> FALSE, wrote |-> FALSE]
            /\ mpc' = "send_data"
    /\ UNCHANGED <<running, connected, socket, wpc, buffer, quit, lastStatus,
                   lastError, errorCount, script, wire, rx, dataOut, left,
                   attempts, protocol, config, host, port, carry, timedOut, loops,
                   startsAgain, busVars, routerVars>>

\* self.socket.send(message.encode('utf-8')); return True, or the handler:
\* error_occurred.emit; return False
Send_write(outcome) ==
    /\ mpc = "send_data"
    /\ outcome \in SocketSend(socket)
    /\ mpc' = sent.mpc
    /\ IF outcome = "written"
       THEN /\ sent' = [sent EXCEPT !.phase = "returned", !.sockSend = socket,
                                    !.result = TRUE, !.wrote = TRUE]
            /\ UNCHANGED <<lastError, errorCount>>
       ELSE IF SendCatches(outcome)
       THEN /\ sent' = [sent EXCEPT !.phase = "returned", !.sockSend = socket]
            /\ lastError' = "Send error"
            /\ errorCount' = Emitted(errorCount)
       ELSE /\ sent' = [sent EXCEPT !.phase = "returned", !.sockSend = socket,
                                    !.raised = TRUE]
            /\ UNCHANGED <<lastError, errorCount>>
    /\ UNCHANGED <<running, connected, socket, wpc, buffer, quit, lastStatus,
                   script, wire, rx, dataOut, left, attempts, protocol, config,
                   host, port, carry, timedOut, loops, startsAgain, busVars,
                   routerVars>>

(***************************************************************************)
(* NetworkManager.on_data_received                                         *)
(***************************************************************************)
\* entries of the sensors mapping of a combined message
MaxSensors == 2

\* dict.get(key, default)
DictGet(d, key, default) == IF key \in DOMAIN d THEN d[key] ELSE default

Publication(topic, data) == [topic |-> topic, data |-> data]

\* a value of the sensors field: a mapping, with its items in the mapping's
\* order, or a value of another kind
EmptyDict == [kind |-> "dict", items |-> <<>>]

\* the body of `for key, value in data.get('sensors', {}).items():`, one
\* publish per entry whose key is in the routing table, to that key's topic
\* and carrying the entry's value; other entries are dropped
RECURSIVE CombinedPublishes_AnyKey(_)
CombinedPublishes_AnyKey(items) ==
    IF items = <<>> THEN <<>>
    ELSE <<Publication("sensor." \o Head(items).key, Head(items).value)>>
         \o CombinedPublishes_AnyKey(Tail(items))

RECURSIVE CombinedPublishes(_)
CombinedPublishes(items) ==
    IF items = <<>> THEN <<>>
    ELSE LET key == Head(items).key
             value == Head(items).value
             rest == CombinedPublishes(Tail(items))
         IN  IF key = "gas" THEN <<Publication("sensor.gas", value)>> \o rest
             ELSE IF key = "gps" THEN <<Publication("sensor.gps", value)>> \o rest
             ELSE IF key = "temperature"
                  THEN <<Publication("sensor.temperature", value)>> \o rest
             ELSE IF key = "humidity"
                  THEN <<Publication("sensor.humidity", value)>> \o rest
             ELSE IF key = "accelerometer"
                  THEN <<Publication("sensor.accelerometer", value)>> \o rest
             ELSE IF key = "gyroscope"
                  THEN <<Publication("sensor.gyroscope", value)>> \o rest
             ELSE rest

\* on_data_received(data): the publish calls it makes, and whether it raises.
\* A sensors value that is no mapping has no items(): AttributeError.
OnDataReceived_HumiditySlip(data) ==
    LET sensor_type == DictGet(data, "type", "")
    IN  IF sensor_type \in {"gas", "gps", "temperature", "accelerometer", "gyroscope"}
        THEN [pubs |-> <<Publication("sensor." \o sensor_type, data)>>,
              raised |-> FALSE]
        ELSE IF sensor_type = "humidity"
        THEN [pubs |-> <<Publication("sensor.temperature", data)>>, raised |-> FALSE]
        ELSE [pubs |-> <<>>, raised |-> FALSE]

OnDataReceived_Fallthrough(data) ==
    [pubs |-> <<Publication("sensor." \o DictGet(data, "type", ""), data)>>,
     raised |-> FALSE]

OnDataReceived(data) ==
    LET sensor_type == DictGet(data, "type", "")
    IN  IF sensor_type = "gas"
        THEN [pubs |-> <<Publication("sensor.gas", data)>>, raised |-> FALSE]
        ELSE IF sensor_type = "gps"
        THEN [pubs |-> <<Publication("sensor.gps", data)>>, raised |-> FALSE]
        ELSE IF sensor_type = "temperature"
        THEN [pubs |-> <<Publication("sensor.temperature", data)>>, raised |-> FALSE]
        ELSE IF sensor_type = "humidity"
        THEN [pubs |-> <<Publication("sensor.humidity", data)>>, raised |-> FALSE]
        ELSE IF sensor_type = "accelerometer"
        THEN [pubs |-> <<Publication("sensor.accelerometer", data)>>, raised |-> FALSE]
        ELSE IF sensor_type = "gyroscope"
        THEN [pubs |-> <<Publication("sensor.gyroscope", data)>>, raised |-> FALSE]
        ELSE IF sensor_type = "combined"
        THEN LET sensors == DictGet(data, "sensors", EmptyDict)
             IN  IF sensors.kind # "dict"
                 THEN [pubs |-> <<>>, raised |-> TRUE]
                 ELSE [pubs |-> CombinedPublishes(sensors.items), raised |-> FALSE]
        ELSE [pubs |-> <<>>, raised |-> FALSE]

\* the data_received signal delivers msg to the manager's slot
On_data_received ==
    /\ ~routed
    /\ routed' = TRUE
    /\ published' = OnDataReceived(msg).pubs
    /\ raised' = OnDataReceived(msg).raised
    /\ UNCHANGED <<msg, slotCount, busVars, workerVars>>

\* The data_received signal is connected to on_data_received by an auto
\* connection: an emission made on the worker thread is queued to the thread
\* of the manager, whose event loop runs the slot once per emission, in the
\* order of the emissions and between two other events.  The slot publishes
\* on the bus with use_qt_signal=True from the thread of the bus.  A message
\* of the wire is no combined message: the slot makes at most one publish.
\* The publish made for the k-th emission of the connection is marked -k.
Slot_data_received ==
    /\ stack = <<>>
    /\ slotCount < Len(dataOut)
    /\ LET data == dataOut[slotCount + 1]
           r == OnDataReceived(data)
       IN  /\ slotCount' = slotCount + 1
           /\ msg' = data
           /\ routed' = TRUE
           /\ published' = r.pubs
           /\ raised' = r.raised
           /\ IF r.pubs = <<>>
              THEN UNCHANGED <<stack, qtQueue, pubs>>
              ELSE publish("main", r.pubs[1].topic, TRUE, -(slotCount + 1), <<>>)
    /\ UNCHANGED <<subscribers, log, changedAt, escaped, regCalls, blocked,
                   resubscribed, workerVars>>

\* the values of the type field of a message: the routing table, combined,
\* and two the table does not hold
MessageTypes == {"gas", "gps", "temperature", "humidity", "accelerometer",
                 "gyroscope", "combined", "unknown_sensor", "Gas"}

SensorKeys == {"gas", "temperature", "humidity", "pressure"}

\* the items of a sensors mapping, in the mapping's order: keys are distinct
SensorItems ==
    { s \in UNION { [1..k -> [key : SensorKeys, value : {10, 20}]] :
                    k \in 0..MaxSensors } :
        \A i, j \in 1..Len(s) : i # j => s[i].key # s[j].key }

\* decoded messages: with or without type, value and sensors
Messages ==
    { t @@ v @@ x :
        t \in {<<>>} \cup { [type |-> y] : y \in MessageTypes },
        v \in {<<>>, [value |-> 5]},
        x \in {<<>>, [sensors |-> [kind |-> "int", items |-> <<>>]]}
                 \cup { [sensors |-> [kind |-> "dict", items |-> i]] :
                            i \in SensorItems } }

RouterIdle ==
    /\ msg = <<>>
    /\ routed = FALSE
    /\ published = <<>>
    /\ raised = FALSE
    /\ slotCount = 0

(***************************************************************************)
(* Specifications                                                          *)
(***************************************************************************)
\* lines of a stream the decoder is checked on
MaxLines == 2

\* the peers of the life cycle: one that sends nothing, one that sends a
\* frame and the start of the next
LifeWires == { <<>>, <<"{", "g", "}", NL, "{">> }

\* the bus alone: the worker is constructed and never started
BusOnlyInit == BusInit /\ WorkerInit /\ script = <<>> /\ RouterIdle

SpecBus == BusOnlyInit /\ [][BusNext]_vars

SpecRegistry == BusOnlyInit /\ [][RegistryNext]_vars

\* the life cycle of the worker: NetworkManager.start, the worker thread,
\* NetworkManager.stop
LifeInit == BusInit /\ WorkerInit /\ script \in LifeWires /\ RouterIdle

LifeNext == WorkerStep \/ MainStep

SpecWorker == LifeInit /\ [][LifeNext]_vars

\* the threads are scheduled: a step either thread can take is taken
SpecWorkerFair ==
    /\ SpecWorker
    /\ WF_vars(WorkerStep)
    /\ WF_vars(MainStep)

\* the worker thread is scheduled; the main thread may never call stop
SpecRetryFair ==
    /\ SpecWorker
    /\ WF_vars(WorkerStep)

\* the life cycle for every protocol string of the configuration
Protocols == {"tcp", "TCP", "udp", "websocket"}

ProtocolInit ==
    /\ BusInit
    /\ RouterIdle
    /\ running = FALSE
    /\ connected = FALSE
    /\ socket = "none"
    /\ wpc = "not_started"
    /\ buffer = <<>>
    /\ mpc = "constructed"
    /\ quit = FALSE
    /\ lastStatus = "none"
    /\ lastError = "none"
    /\ script \in LifeWires
    /\ wire = <<>>
    /\ rx = <<>>
    /\ dataOut = <<>>
    /\ left = "none"
    /\ attempts = 0
    /\ \E p \in Protocols : Configured(ConfigWith(p))
    /\ errorCount = 0
    /\ sent = NoSend
    /\ HistInit

ProtocolNext ==
    \/ WorkerStep
    \/ Start_unsupported
    \/ UdpStep
    \/ MainStep

SpecProtocol == ProtocolInit /\ [][ProtocolNext]_vars

\* the life cycle for the configurations the store may hold when the manager
\* is constructed: the default values, a file that holds an empty object, a
\* file whose network section has no protocol, and network keys set by the user
Configs ==
    { get_default_config,
      Dict(<<>>),
      Dict([network |-> Dict([esp32_ip |-> Leaf("10.0.0.5")])]),
      UserConfig("10.0.0.5", 9000, "udp"),
      ConfigWith("tcp") }

ConfigInit ==
    /\ BusInit
    /\ RouterIdle
    /\ running = FALSE
    /\ connected = FALSE
    /\ socket = "none"
    /\ wpc = "not_started"
    /\ buffer = <<>>
    /\ mpc = "constructed"
    /\ quit = FALSE
    /\ lastStatus = "none"
    /\ lastError = "none"
    /\ script \in LifeWires
    /\ wire = <<>>
    /\ rx = <<>>
    /\ dataOut = <<>>
    /\ left = "none"
    /\ attempts = 0
    /\ \E c \in Configs : Configured(c)
    /\ errorCount = 0
    /\ sent = NoSend
    /\ HistInit

SpecConfig == ConfigInit /\ [][ProtocolNext]_vars

\* the life cycle with send_data called from the main thread at any moment
\* the main thread is not inside NetworkManager.start or stop
SendNext ==
    \/ WorkerStep
    \/ MainStep
    \/ Send_check
    \/ \E o \in {"written", "OSError"} : Send_write(o)

SpecSend == LifeInit /\ [][SendNext]_vars

\* the life cycle with a peer that sends, on every connection, a line and the
\* start of a frame: the end of the line is the end of a frame whose start
\* is the tail, so that the tail of one connection and the first bytes of the
\* next make a frame
ReconnectWires == { <<"1", "}", NL, "{", "g">>, <<"}", NL, "{">> }

ReconnectInit == BusInit /\ WorkerInit /\ script \in ReconnectWires /\ RouterIdle

SpecReconnect == ReconnectInit /\ [][LifeNext]_vars

\* the life cycle with any sequence of start and stop calls
RestartNext ==
    \/ WorkerStep
    \/ MainStep
    \/ Manager_start_again
    \/ Manager_stop_idle

SpecRestart == LifeInit /\ [][RestartNext]_vars

\* the stream decoder: one connection, just established, the worker in its
\* receive loop, and a peer that sends any stream
StreamInit ==
    /\ BusInit
    /\ RouterIdle
    /\ running = TRUE
    /\ connected = TRUE
    /\ socket = "connected"
    /\ wpc = "recv_test"
    /\ buffer = <<>>
    /\ mpc = "started"
    /\ quit = FALSE
    /\ lastStatus = "connected"
    /\ lastError = "none"
    /\ script \in Wires(MaxLines)
    /\ wire = script
    /\ rx = <<>>
    /\ dataOut = <<>>
    /\ left = "none"
    /\ attempts = 1
    /\ Configured(ConfigWith("tcp"))
    /\ errorCount = 0
    /\ sent = NoSend
    /\ carry = <<>>
    /\ timedOut = "no"
    /\ loops = 1
    /\ startsAgain = [noop |-> 0, restart |-> 0]

StreamNext ==
    \/ Tcp_recv_test
    \/ \E n \in 1..Len(wire) : Tcp_recv_data(n)
    \/ Tcp_recv_timeout
    \/ Tcp_recv_empty
    \/ Tcp_except_recv

SpecStream == StreamInit /\ [][StreamNext]_vars

\* the path from the socket to the subscribers: one connection, the worker
\* in its receive loop, the manager's slot and the bus on the main thread,
\* two callbacks on sensor.gas and one on sensor.temperature
PipeLines == { <<"{", "g", "}">>, <<"{", "g", "1", "}">>, <<"{", "t", "}">>,
               <<"z">>, <<"x80">> }

PipeWires == { Concat(ls) : ls \in UNION { [1..k -> PipeLines] : k \in 0..MaxLines } }

PipeInit ==
    /\ qtQueue = <<>>
    /\ stack = <<>>
    /\ pubs = <<>>
    /\ log = <<>>
    /\ changedAt = 0
    /\ escaped = FALSE
    /\ regCalls = 0
    /\ blocked = FALSE
    /\ resubscribed = FALSE
    /\ subscribers = ("sensor.gas" :> <<"a", "b">>) @@ ("sensor.temperature" :> <<"b">>)
    /\ RouterIdle
    /\ running = TRUE
    /\ connected = TRUE
    /\ socket = "connected"
    /\ wpc = "recv_test"
    /\ buffer = <<>>
    /\ mpc = "started"
    /\ quit = FALSE
    /\ lastStatus = "connected"
    /\ lastError = "none"
    /\ script \in PipeWires
    /\ wire = script
    /\ rx = <<>>
    /\ dataOut = <<>>
    /\ left = "none"
    /\ attempts = 1
    /\ Configured(ConfigWith("tcp"))
    /\ errorCount = 0
    /\ sent = NoSend
    /\ carry = <<>>
    /\ timedOut = "no"
    /\ loops = 1
    /\ startsAgain = [noop |-> 0, restart |-> 0]

PipeNext ==
    \/ Tcp_recv_test
    \/ \E n \in 1..Len(wire) : Tcp_recv_data(n)
    \/ Tcp_recv_timeout
    \/ Tcp_recv_empty
    \/ Tcp_except_recv
    \/ Slot_data_received
    \/ Invoke("return", "sensor.gas", TRUE)
    \/ \E t \in Topics : Invoke("publish", t, TRUE)

SpecPipe == PipeInit /\ [][PipeNext]_vars

\* the main thread is in its event loop: not inside NetworkManager.stop,
\* which returns to the loop only after worker_thread.wait()
InEventLoop == mpc \in {"started", "returned"}

\* the event loop of the main thread runs the slot of a queued data_received
Loop_slot == InEventLoop /\ Slot_data_received

\* the delivery the slot's publish started goes on
Loop_invoke == InEventLoop /\ Invoke("return", "sensor.gas", TRUE)

\* NetworkManager.stop is called from the event loop, between two events
Loop_stop == stack = <<>> /\ Stop_running

\* the path from the socket to the subscribers, on one connection, with
\* NetworkManager.stop called at any moment: the worker leaves its loop and
\* its thread finishes, the main thread goes back to its event loop
ShutdownNext ==
    \/ Tcp_recv_test
    \/ \E n \in 1..Len(wire) : Tcp_recv_data(n)
    \/ Tcp_recv_timeout
    \/ Tcp_recv_empty
    \/ Tcp_recv_error
    \/ Tcp_except_recv
    \/ Tcp_finally
    \/ Tcp_sleep_test
    \/ Tcp_sleep
    \/ Tcp_while
    \/ Thread_exec
    \/ Loop_slot
    \/ Loop_invoke
    \/ Loop_stop
    \/ Stop_close
    \/ Stop_connected
    \/ Stop_emit
    \/ Manager_quit
    \/ Manager_wait

SpecShutdown == PipeInit /\ [][ShutdownNext]_vars

\* the router: any decoded message, handled by on_data_received
RouterInit ==
    /\ BusInit /\ WorkerInit /\ script = <<>>
    /\ msg \in Messages
    /\ routed = FALSE
    /\ published = <<>>
    /\ raised = FALSE
    /\ slotCount = 0

RouterNext == On_data_received

SpecRouter == RouterInit /\ [][RouterNext]_vars


(***************************************************************************)
(* Reading the histories of the bus.                                       *)
(***************************************************************************)
\* the delivery of publish call d is waiting in the consuming context's queue
Queued(d) == \E k \in 1..Len(qtQueue) : qtQueue[k].data = d
\* the delivery of publish call d is in progress
Running(d) == \E k \in 1..Len(stack) : stack[k].data = d
\* the delivery of publish call d is over
Delivered(d) == d \in 1..Len(pubs) /\ ~Queued(d) /\ ~Running(d)
\* the places of the log where callback c was invoked with event d
Invocations(c, d) == {m \in 1..Len(log) : log[m].cb = c /\ log[m].data = d}

\* C1: a callback that raises does not stop the delivery: when the delivery
\* of a publish is over, every callback that follows a raising callback in
\* the delivery's list has been invoked, after it, with the same payload on
\* the same topic; no exception reaches the caller of publish; the step in
\* which a callback raises leaves the registry as it was; and every delivery
\* that is over has invoked each callback of its list exactly once.
C1_Delivery ==
    /\ ~escaped
    /\ \A d \in 1..Len(pubs) : Delivered(d) =>
          /\ \A k \in 1..Len(pubs[d].snap) :
                Cardinality(Invocations(pubs[d].snap[k], d)) = 1
          /\ \A m \in 1..Len(log) :
                (log[m].data = d /\ log[m].outcome = "raise") =>
                   \A i, j \in 1..Len(pubs[d].snap) :
                      (pubs[d].snap[i] = log[m].cb /\ j > i) =>
                         \E m2 \in 1..Len(log) :
                            /\ m2 > m
                            /\ log[m2].cb = pubs[d].snap[j]
                            /\ log[m2].data = d
                            /\ log[m2].topic = pubs[d].topic

C1_RegistryKept ==
    (Len(log') = Len(log) + 1 /\ log'[Len(log')].outcome = "raise")
        => subscribers' = subscribers

C1_Isolation == []C1_Delivery /\ [][C1_RegistryKept]_vars

\* C1 witness: the first of two callbacks raised on event 1, the second was
\* still invoked with event 1, and a later publish on the topic reached both.
C1_Witness ==
    /\ Len(pubs) = 2 /\ Delivered(1) /\ Delivered(2)
    /\ pubs[1].topic = pubs[2].topic
    /\ pubs[1].snap = <<"a", "b">> /\ pubs[2].snap = <<"a", "b">>
    /\ \E m \in 1..Len(log) : \E m2 \in 1..Len(log) :
          /\ m2 > m
          /\ log[m] = [cb |-> "a", topic |-> pubs[1].topic, data |-> 1,
                       outcome |-> "raise"]
          /\ log[m2].cb = "b" /\ log[m2].data = 1
    /\ Invocations("a", 2) # {} /\ Invocations("b", 2) # {}

\* C2: publish call e1 begins before publish call e2 on the same topic (the
\* payload of a publish call is its rank among the publish calls), and the
\* registry has not changed since before e1 began: every callback receives
\* e1 before e2.
C2_Ordering ==
    \A m1, m2 \in 1..Len(log) :
       ( /\ m1 < m2
         /\ log[m1].cb = log[m2].cb
         /\ log[m1].topic = log[m2].topic
         /\ log[m1].data > changedAt
         /\ log[m2].data > changedAt )
       => log[m1].data < log[m2].data

(***************************************************************************)
(* Reading the histories of the stream decoder.                            *)
(***************************************************************************)
\* a line holds a JSON object
IsObjectLine(line) == Utf8Decodes(line) /\ JsonLoads(line).kind = "dict"

\* the objects of the newline-terminated lines of a stream, in stream order
RECURSIVE ObjectsOf(_)
ObjectsOf(s) ==
    LET k == Find(s, 1)
        line == SubSeq(s, 1, k - 1)
    IN  IF k = 0 THEN <<>>
        ELSE (IF IsObjectLine(line) THEN <<JsonLoads(line).value>> ELSE <<>>)
             \o ObjectsOf(SubSeq(s, k + 1, Len(s)))

\* the bytes of a stream after its last newline
RECURSIVE Partial(_)
Partial(s) ==
    LET k == Find(s, 1)
    IN  IF k = 0 THEN s ELSE Partial(SubSeq(s, k + 1, Len(s)))

\* a newline-terminated line of the stream holds no JSON object
RECURSIVE HasNonObjectLine(_)
HasNonObjectLine(s) ==
    LET k == Find(s, 1)
    IN  /\ k # 0
        /\ \/ ~IsObjectLine(SubSeq(s, 1, k - 1))
           \/ HasNonObjectLine(SubSeq(s, k + 1, Len(s)))

\* C3: whatever the cuts of the stream into receive chunks, the messages
\* emitted are the objects of the newline-terminated lines received so far,
\* one each and in stream order, and while the receive loop runs the buffer
\* holds the bytes received after the last newline.
C3_Reassembly ==
    /\ dataOut = ObjectsOf(rx)
    /\ wpc \in {"recv_test", "recv"} => buffer = Partial(rx)

\* C4: once a newline-terminated line that holds no JSON object was received,
\* no exception has reached the receive loop, no error_occurred was emitted,
\* the worker is still connected and in its receive loop (or the peer closed),
\* and every object line received, before or after it, was emitted.
C4_Tolerance ==
    HasNonObjectLine(rx) =>
        /\ left \in {"none", "peer_close"}
        /\ lastError = "none"
        /\ connected
        /\ dataOut = ObjectsOf(rx)

(***************************************************************************)
(* Reading the life cycle of the worker.                                   *)
(***************************************************************************)
\* NetworkManager.stop has not been called
NotStopped == mpc \in {"constructed", "started"}
\* NetworkWorker.stop has run to its end
WorkerStopDone == mpc \in {"quit", "wait", "returned"}
\* run_tcp has returned
LoopExited == wpc \in {"exited", "finished"}

\* C5: a zero-length read on a connected worker that is not stopped is
\* reported: when the worker is in the reconnect wait that follows it, the
\* last connection_status_changed emitted has connected=false.
C5_DropReported ==
    (wpc = "sleep" /\ left = "peer_close" /\ NotStopped)
        => lastStatus = "disconnected"

\* C6: once NetworkWorker.stop has run and the worker's loop has exited, the
\* worker is disconnected: running and connected are false, the socket is
\* closed, and the last connection_status_changed emitted has connected=false.
C6_StopDisconnects ==
    (WorkerStopDone /\ LoopExited) =>
        /\ ~running
        /\ ~connected
        /\ socket \in {"none", "closed"}
        /\ lastStatus = "disconnected"

\* C7: every call of NetworkManager.stop made after NetworkManager.start
\* returns (and it returns only once the worker thread has finished).
C7_StopReturns == (mpc = "stop_close") ~> (mpc = "returned")

(***************************************************************************)
(* Reading the publish calls of on_data_received.                          *)
(***************************************************************************)
\* the discriminators of the routing table
RoutingTypes == {"gas", "gps", "temperature", "humidity", "accelerometer",
                 "gyroscope"}

\* C8: a message whose type is in the routing table makes exactly one
\* publish, to the topic sensor.<type>, with the message as payload.
C8_Routing ==
    (routed /\ DictGet(msg, "type", "") \in RoutingTypes) =>
        /\ published = <<Publication("sensor." \o msg.type, msg)>>
        /\ ~raised

\* C8 witness: a humidity message with a value was routed to sensor.humidity.
C8_Witness ==
    /\ routed
    /\ DOMAIN msg = {"type", "value"}
    /\ msg.type = "humidity"
    /\ published = <<Publication("sensor.humidity", msg)>>

\* the items of the sensors mapping of a combined message
CombinedItems == DictGet(msg, "sensors", EmptyDict).items

\* C9: for a combined message with a sensors mapping, each entry whose key
\* is in the routing table has exactly one publish, to sensor.<key> with the
\* entry's value, and every publish made is the publish of such an entry.
C9_Combined ==
    ( /\ routed
      /\ DictGet(msg, "type", "") = "combined"
      /\ DictGet(msg, "sensors", EmptyDict).kind = "dict" ) =>
        /\ ~raised
        /\ \A k \in 1..Len(CombinedItems) :
              CombinedItems[k].key \in RoutingTypes =>
                 Cardinality({ p \in 1..Len(published) :
                     published[p] = Publication("sensor." \o CombinedItems[k].key,
                                                CombinedItems[k].value) }) = 1
        /\ \A p \in 1..Len(published) :
              \E k \in 1..Len(CombinedItems) :
                 /\ CombinedItems[k].key \in RoutingTypes
                 /\ published[p] = Publication("sensor." \o CombinedItems[k].key,
                                               CombinedItems[k].value)
        /\ Len(published) =
              Cardinality({ k \in 1..Len(CombinedItems) :
                              CombinedItems[k].key \in RoutingTypes })

\* C9 witness: a combined message with a gas entry, a temperature entry
\* (P6) was routed to the two topics.
C9_Witness ==
    /\ routed
    /\ DictGet(msg, "type", "") = "combined"
    /\ "sensors" \in DOMAIN msg
    /\ CombinedItems = << [key |-> "gas", value |-> 10],
                          [key |-> "temperature", value |-> 20] >>
    /\ published = << Publication("sensor.gas", 10),
                      Publication("sensor.temperature", 20) >>

\* C10: a message whose type is neither in the routing table nor combined,
\* or that has no type, makes no publish and raises nothing.
C10_UnknownDropped ==
    (routed /\ DictGet(msg, "type", "") \notin RoutingTypes \cup {"combined"}) =>
        /\ published = <<>>
        /\ ~raised

\* C10 witness: a message of type unknown_sensor with a value was handled.
C10_Witness ==
    /\ routed
    /\ DOMAIN msg = {"type", "value"}
    /\ msg.type = "unknown_sensor"
    /\ published = <<>>

(***************************************************************************)
(* Reading the registry and the deliveries.                                *)
(***************************************************************************)
\* the callbacks invoked with event d, in the order they were invoked
RECURSIVE LogCallbacks(_, _)
LogCallbacks(lg, d) ==
    IF lg = <<>> THEN <<>>
    ELSE (IF Head(lg).data = d THEN <<Head(lg).cb>> ELSE <<>>)
         \o LogCallbacks(Tail(lg), d)

\* s is the beginning of t
IsPrefix(s, t) == Len(s) <= Len(t) /\ s = SubSeq(t, 1, Len(s))

\* the place of c in the list s, which holds it
IndexOf(c, s) == CHOOSE k \in 1..Len(s) : s[k] = c

\* C11: whatever calls of subscribe, unsubscribe, clear_topic and clear_all
\* were made (from the consuming context and from callbacks), no list of the
\* registry holds a callback twice, and no publish invokes a callback more
\* than once.
C11_AtMostOnce ==
    /\ \A t \in DOMAIN subscribers :
          \A i, j \in 1..Len(subscribers[t]) :
             i # j => subscribers[t][i] # subscribers[t][j]
    /\ \A d \in 1..Len(pubs) : \A c \in Callbacks :
          Cardinality(Invocations(c, d)) <= 1

\* C11 witness: callback a, registered on sensor.gas, subscribed itself to
\* sensor.gas again while handling event 1; the next publish on sensor.gas
\* invoked it once.
C11_Witness ==
    /\ resubscribed
    /\ regCalls = 2
    /\ subscribers = ("sensor.gas" :> <<"a">>)
    /\ Len(pubs) = 2 /\ Delivered(1) /\ Delivered(2)
    /\ log = << [cb |-> "a", topic |-> "sensor.gas", data |-> 1,
                 outcome |-> "subscribe"],
                [cb |-> "a", topic |-> "sensor.gas", data |-> 2,
                 outcome |-> "return"] >>

\* C12: the callbacks a publish has invoked so far are, in order, the
\* beginning of the list its delivery took (all of it once the delivery is
\* over), and every call of the registry keeps that list in registration
\* order: callbacks that stay keep their order, and a callback that is added
\* comes after those that were there.
C12_InOrder ==
    \A d \in 1..Len(pubs) :
       /\ IsPrefix(LogCallbacks(log, d), pubs[d].snap)
       /\ Delivered(d) => LogCallbacks(log, d) = pubs[d].snap

C12_OrderKept ==
    \A t \in DOMAIN subscribers \cap DOMAIN subscribers' :
       \A i, j \in 1..Len(subscribers'[t]) :
          (i < j /\ InList(subscribers'[t][j], subscribers[t])) =>
             /\ InList(subscribers'[t][i], subscribers[t])
             /\ IndexOf(subscribers'[t][i], subscribers[t])
                   < IndexOf(subscribers'[t][j], subscribers[t])

C12_RegistrationOrder == []C12_InOrder /\ [][C12_OrderKept]_vars

\* C12 witness: b was subscribed to sensor.gas before a, and a publish on
\* sensor.gas invoked b, then a.
C12_Witness ==
    /\ Len(pubs) >= 1 /\ Delivered(1)
    /\ pubs[1].topic = "sensor.gas"
    /\ pubs[1].snap = <<"b", "a">>
    /\ LogCallbacks(log, 1) = <<"b", "a">>

\* C14: no delivery runs on a context other than the consuming context: a
\* publish made from the producing context is queued and its callbacks run
\* on the consuming context, none before its delivery is taken from the
\* queue; the deliveries therefore never run at the same time.
C14_Marshalled ==
    \A d \in 1..Len(pubs) :
       /\ pubs[d].on \in {"queued", "main"}
       /\ pubs[d].on = "queued" => \A c \in Callbacks : Invocations(c, d) = {}

\* C14 witness: a publish made from the producing context was delivered, on
\* the consuming context, to two callbacks.
C14_Witness ==
    \E d \in 1..Len(pubs) :
       /\ pubs[d].ctx = "worker"
       /\ pubs[d].on = "main"
       /\ Delivered(d)
       /\ LogCallbacks(log, d) = <<"a", "b">>

\* C15: a callback that calls subscribe, unsubscribe, clear_topic or
\* clear_all during its invocation gets the lock, and a delivery that is over
\* has invoked each callback of the list it took exactly once and no other
\* callback.
C15_Reentrant ==
    /\ ~blocked
    /\ \A d \in 1..Len(pubs) : Delivered(d) =>
          \A c \in Callbacks :
             Cardinality(Invocations(c, d)) =
                (IF InList(c, pubs[d].snap) THEN 1 ELSE 0)

\* C15 witness: a and b are registered on sensor.gas; a, handling event 1,
\* unsubscribed itself from sensor.gas; b was still invoked with event 1.
C15_Witness ==
    /\ regCalls = 3
    /\ Len(pubs) = 1 /\ Delivered(1)
    /\ pubs[1].snap = <<"a", "b">>
    /\ subscribers = ("sensor.gas" :> <<"b">>)
    /\ log = << [cb |-> "a", topic |-> "sensor.gas", data |-> 1,
                 outcome |-> "unsubscribe"],
                [cb |-> "b", topic |-> "sensor.gas", data |-> 1,
                 outcome |-> "return"] >>

\* C17: a call unsubscribe(topic, callback) for a callback the topic's list
\* does not hold leaves the registry, get_topics() and every
\* get_subscriber_count() as they were.
C17_AbsentNoOp ==
    [][ \A t \in Topics, c \in Callbacks :
           (Unsubscribe(t, c) /\ ~InList(c, SubscribersGet(t))) =>
              /\ subscribers' = subscribers
              /\ get_topics' = get_topics
              /\ \A u \in Topics :
                    get_subscriber_count(u)' = get_subscriber_count(u) ]_vars

(***************************************************************************)
(* Reading the path from the socket to the subscribers.                    *)
(***************************************************************************)
\* the objects of a sequence of messages that on_data_received routes to topic
RECURSIVE RoutedTo(_, _)
RoutedTo(objs, topic) ==
    IF objs = <<>> THEN <<>>
    ELSE (IF OnDataReceived(Head(objs)).pubs # <<>>
             /\ OnDataReceived(Head(objs)).pubs[1].topic = topic
          THEN <<Head(objs)>> ELSE <<>>)
         \o RoutedTo(Tail(objs), topic)

\* the frames callback c has received on topic, in the order it received
\* them: the payloads of the publishes the manager's slot made
RECURSIVE Received(_, _, _)
Received(lg, c, topic) ==
    IF lg = <<>> THEN <<>>
    ELSE (IF Head(lg).cb = c /\ Head(lg).topic = topic
             /\ pubs[Head(lg).data].from < 0
          THEN <<dataOut[-pubs[Head(lg).data].from]>> ELSE <<>>)
         \o Received(Tail(lg), c, topic)

\* C13: the frames a subscriber of a sensor's topic has received are, in
\* order, the beginning of the sequence of the valid frames of that sensor
\* type in the stream received: a frame is never received before a frame that
\* precedes it in the stream, nor twice.
C13_FrameOrder ==
    \A t \in DOMAIN subscribers : \A k \in 1..Len(subscribers[t]) :
       IsPrefix(Received(log, subscribers[t][k], t), RoutedTo(ObjectsOf(rx), t))

\* C13 witness: the stream held two gas frames, in two lines; callback b
\* received the first, then the second.
C13_Witness ==
    /\ ObjectsOf(rx) = << [type |-> "gas"], [type |-> "gas", value |-> 1] >>
    /\ Received(log, "b", "sensor.gas")
          = << [type |-> "gas"], [type |-> "gas", value |-> 1] >>
    /\ Received(log, "a", "sensor.gas")
          = << [type |-> "gas"], [type |-> "gas", value |-> 1] >>

(***************************************************************************)
(* Reading the last send_data call.                                        *)
(***************************************************************************)
\* C16: a send_data call made while the worker has no connected socket (no
\* socket yet, a socket not connected yet, a socket closed after a dropped
\* connection or by stop) returns False, raises nothing to its caller and
\* writes no bytes.
C16_SendFalse ==
    (sent.phase = "returned" /\ sent.sock # "connected") =>
        /\ ~sent.result
        /\ ~sent.raised
        /\ ~sent.wrote

(***************************************************************************)
(* Reading the life cycle in datagram mode and for other protocol strings. *)
(***************************************************************************)
\* the positions of run_tcp's connect, receive and reconnect cycle
TcpPositions == {"while", "create", "connect", "set_connected", "emit_connected",
                 "recv_test", "recv", "except_recv", "except_conn", "finally",
                 "sleep_test", "sleep"}

\* C18: in datagram mode the worker creates and binds its socket at most
\* once and is never in the connect and reconnect cycle; a bind failure ends
\* the run with error_occurred emitted and connected=false as the last
\* status; and a receive timeout emits nothing, changes no status and leads
\* back to the test of the loop.
C18_BindOnce ==
    Lower(protocol) = "udp" =>
        /\ attempts <= 1
        /\ wpc \notin TcpPositions
        /\ (left = "bind_error" /\ LoopExited) =>
              /\ lastError = "UDP setup error"
              /\ errorCount = 1
              /\ ~connected
              /\ lastStatus = "disconnected"
              /\ socket = "closed"

C18_TimeoutIdle ==
    Udp_recv_timeout =>
        /\ UNCHANGED <<lastError, errorCount, lastStatus, connected, socket>>
        /\ wpc' = "udp_while"

C18_Datagram == []C18_BindOnce /\ [][C18_TimeoutIdle]_vars

\* C18 witness: in datagram mode the bind failed while the manager was not
\* stopped, and the run is over.
C18_Witness ==
    /\ protocol = "udp"
    /\ mpc = "started"
    /\ left = "bind_error"
    /\ wpc = "exited"
    /\ lastError = "UDP setup error"
    /\ lastStatus = "disconnected"

TransportFailure ==
    \/ wpc \in {"except_conn", "except_recv"}
    \/ wpc = "finally" /\ left = "peer_close"

\* C19: while NetworkManager.stop has not been called the worker's loop does
\* not end; every connect failure, read error and peer close is followed by
\* the reconnect wait, and every reconnect wait by a new connection attempt,
\* unless stop is called first.
C19_LoopGoesOn == NotStopped => ~LoopExited

C19_Retries ==
    /\ []C19_LoopGoesOn
    /\ (TransportFailure /\ NotStopped) ~> (wpc = "sleep" \/ ~NotStopped)
    /\ (wpc = "sleep" /\ NotStopped) ~> (wpc = "connect" \/ ~NotStopped)

\* C19 witness: the peer closed the first connection and the worker, not
\* stopped, is making its second connection attempt.
C19_Witness ==
    /\ NotStopped
    /\ left = "peer_close"
    /\ attempts = 2
    /\ wpc = "connect"
    /\ socket = "open"

(***************************************************************************)
(* Reading the worker the manager builds from the configuration.           *)
(***************************************************************************)
\* C21: with the default values in the configuration store, the worker is
\* built with host 192.168.1.100, port 8080 and a protocol string that makes
\* NetworkWorker.start take the stream transport: start never takes the
\* branch of the unsupported protocol.
C21_DefaultStream ==
    config = get_default_config =>
        /\ host = "192.168.1.100"
        /\ port = 8080
        /\ protocol = "tcp"
        /\ ProtocolBranch(protocol) = "tcp"
        /\ wpc # "unsupported"
        /\ lastError # "Unsupported protocol"

(***************************************************************************)
(* Reading the decode failures of the two transports.                      *)
(***************************************************************************)
\* the exceptions with which the decode of a line or of a datagram fails:
\* json.loads on a text that is no JSON, bytes.decode on bytes that are no UTF-8
DecodeFailures == {"JSONDecodeError", "UnicodeDecodeError"}

\* C22: in stream mode and in datagram mode, a line or a datagram that fails
\* to decode (invalid JSON text, bytes that are no UTF-8) is dropped
\* silently: its exception never reaches a handler that emits error_occurred.
C22_DecodeSilent ==
    wpc \in {"except_recv", "udp_except_recv"} => left \notin DecodeFailures

(***************************************************************************)
(* Reading the accesses to the connection state of the worker.             *)
(***************************************************************************)
\* the worker thread is inside run_tcp
LoopRunning == wpc \in TcpPositions

\* the steps of the consuming context that read or write self.connected or
\* self.socket: `if self.socket: self.socket.close()` and
\* `self.connected = False` of NetworkWorker.stop, the test and the send of
\* send_data
TouchesConnection ==
    \/ Stop_close
    \/ Stop_connected
    \/ Send_check
    \/ \E o \in {"written", "OSError"} : Send_write(o)

\* C23: while the worker's loop is running, no step of the consuming context
\* reads or writes the connected flag or the socket handle of the worker.
C23_WorkerOwned == [][LoopRunning => ~TouchesConnection]_vars

(***************************************************************************)
(* Reading the receive loops of one manager.                               *)
(***************************************************************************)
\* C24: whatever the sequence of NetworkManager.start and stop calls, calls
\* of start on a running manager and after a stop included, at most one
\* receive loop is executing, and it is the one the worker thread is in.
C24_OneLoop ==
    /\ loops <= 1
    /\ LoopRunning => loops = 1

\* C24 witness: start was called again while the thread was running, the
\* manager was stopped and started again, and the loop of the second run is
\* receiving on its connection.
C24_Witness ==
    /\ startsAgain = [noop |-> 1, restart |-> 1]
    /\ mpc = "started"
    /\ wpc = "recv"
    /\ socket = "connected"
    /\ loops = 1

(***************************************************************************)
(* Reading the bulk removals of the registry.                              *)
(***************************************************************************)
\* the step is a call clear_topic(t), from the consuming context between
\* two events or from a callback
ClearTopicCall(t) ==
    \/ ClearTopic(t)
    \/ \E c \in Callbacks : InvokeRegistry("clear_topic", t, c)

\* the step is a call clear_all()
ClearAllCall ==
    \/ ClearAll
    \/ \E t \in Topics, c \in Callbacks : InvokeRegistry("clear_all", t, c)

\* the publish calls whose delivery starts in the step
StartsDelivery(d) ==
    /\ d \in 1..Len(pubs')
    /\ pubs'[d].on # "queued"
    /\ d \in 1..Len(pubs) => pubs[d].on = "queued"

\* C25: clear_topic(T) leaves T with no subscription and the list of every
\* other topic as it was; clear_all() leaves no topic with a subscriber; a
\* delivery takes the list its topic has when it starts, and invokes no
\* callback when that list is empty, as after either call.
C25_ClearTopic ==
    \A t \in Topics : ClearTopicCall(t) =>
        /\ get_subscriber_count(t)' = 0
        /\ t \notin get_topics'
        /\ \A u \in Topics \ {t} :
              /\ SubscribersGet(u)' = SubscribersGet(u)
              /\ (u \in get_topics') = (u \in get_topics)

C25_ClearAll == ClearAllCall => \A u \in Topics : get_subscriber_count(u)' = 0

C25_TakesList ==
    \A d \in 1..Len(pubs') :
       StartsDelivery(d) => pubs'[d].snap = SubscribersGet(pubs'[d].topic)

C25_NoCallback ==
    \A d \in 1..Len(pubs) :
       pubs[d].snap = <<>> => \A c \in Callbacks : Invocations(c, d) = {}

C25_BulkRemoval ==
    /\ []C25_NoCallback
    /\ [][C25_ClearTopic /\ C25_ClearAll /\ C25_TakesList]_vars

\* C25 witness: a is registered on sensor.gas and b on sensor.temperature;
\* the first publish on sensor.gas invoked a; clear_topic(sensor.gas) was
\* called; the second publish on sensor.gas invoked no callback, and b is
\* still registered on sensor.temperature.
C25_Witness ==
    /\ regCalls = 3
    /\ subscribers = ("sensor.temperature" :> <<"b">>)
    /\ Len(pubs) = 2 /\ Delivered(1) /\ Delivered(2)
    /\ pubs[1].topic = "sensor.gas" /\ pubs[2].topic = "sensor.gas"
    /\ pubs[1].snap = <<"a">> /\ pubs[2].snap = <<>>
    /\ pubs[2].on = "main"
    /\ log = << [cb |-> "a", topic |-> "sensor.gas", data |-> 1,
                 outcome |-> "return"] >>

(***************************************************************************)
(* Reading the frame buffer across connections.                            *)
(***************************************************************************)
\* C26: in the receive loop the buffer holds the bytes received on the
\* current connection after its last newline, and nothing else: it is empty
\* when the loop of a connection starts, whatever the previous connection
\* left; and every message emitted on a connection is the object of a line
\* received on that connection.
C26_FreshBuffer ==
    /\ wpc \in {"recv_test", "recv"} => buffer = Partial(rx)
    /\ (wpc = "recv_test" /\ rx = <<>>) => buffer = <<>>
    /\ IsPrefix(dataOut, ObjectsOf(rx))

\* C26 witness: the first connection ended with the start of a frame in the
\* buffer; the second connection has received a line that is the end of that
\* frame, and no message was decoded.
C26_Witness ==
    /\ attempts = 2
    /\ carry = <<"{", "g">>
    /\ wpc = "recv_test"
    /\ rx = <<"1", "}", NL>>
    /\ buffer = <<>>
    /\ dataOut = <<>>

(***************************************************************************)
(* Reading the list a delivery uses.                                       *)
(***************************************************************************)
\* C27: a delivery uses the list its topic had when the delivery started.
\* Whatever the callbacks do to the registry during the delivery, the
\* callbacks invoked so far are the beginning of that list and, once the
\* delivery is over, each callback of that list was invoked and no other:
\* one that was unsubscribed meanwhile is still invoked, one that was
\* subscribed meanwhile is not.  A delivery in progress keeps its list when
\* the registry changes, and a delivery that starts takes the list the
\* registry holds then, callbacks subscribed during earlier deliveries
\* included.
C27_ListUsed ==
    \A d \in 1..Len(pubs) :
       /\ IsPrefix(LogCallbacks(log, d), pubs[d].snap)
       /\ Delivered(d) =>
             \A c \in Callbacks :
                (Invocations(c, d) # {}) = InList(c, pubs[d].snap)

C27_ListKept ==
    \A k \in 1..Len(stack') :
       (k <= Len(stack) /\ stack[k].data = stack'[k].data) =>
          /\ stack'[k].callbacks = stack[k].callbacks
          /\ stack'[k].callbacks = pubs'[stack'[k].data].snap

C27_ListTaken ==
    \A d \in 1..Len(pubs') :
       StartsDelivery(d) =>
          pubs'[d].snap = (IF pubs'[d].topic \in DOMAIN subscribers'
                           THEN subscribers'[pubs'[d].topic] ELSE <<>>)

C27_Snapshot == []C27_ListUsed /\ [][C27_ListKept /\ C27_ListTaken]_vars

\* C27 witness: a is registered on sensor.gas.  Handling event 1, a
\* subscribed b to sensor.gas: b was not invoked with event 1.  The next
\* publish on sensor.gas took the list a, b; handling event 2, a
\* unsubscribed b, and b was still invoked with event 2.
C27_Witness ==
    /\ regCalls = 3
    /\ Len(pubs) = 2 /\ Delivered(1) /\ Delivered(2)
    /\ pubs[1].snap = <<"a">> /\ pubs[2].snap = <<"a", "b">>
    /\ subscribers = ("sensor.gas" :> <<"a">>)
    /\ log = << [cb |-> "a", topic |-> "sensor.gas", data |-> 1,
                 outcome |-> "subscribe"],
                [cb |-> "a", topic |-> "sensor.gas", data |-> 2,
                 outcome |-> "unsubscribe"],
                [cb |-> "b", topic |-> "sensor.gas", data |-> 2,
                 outcome |-> "return"] >>

(***************************************************************************)
(* Reading the receive timeouts of the stream transport.                   *)
(***************************************************************************)
\* C28: a receive timeout on a connected worker emits no error_occurred and
\* no status, leaves the connection, the socket and the buffer as they are
\* and leads back to the test of the receive loop; so, timeouts or not, the
\* buffer holds the bytes received after the last newline and the messages
\* emitted are the objects of the lines received: a frame whose parts came
\* before and after a timeout is one message.
C28_TimeoutKeeps ==
    Tcp_recv_timeout =>
        /\ UNCHANGED <<lastError, errorCount, lastStatus, connected, socket,
                       buffer, dataOut, rx, running>>
        /\ wpc' = "recv_test"

C28_Decoded ==
    (wpc \in {"recv_test", "recv"} /\ left = "none") =>
        /\ buffer = Partial(rx)
        /\ dataOut = ObjectsOf(rx)

C28_Timeout == []C28_Decoded /\ [][C28_TimeoutKeeps]_vars

\* C28 witness: a receive timed out while the buffer held the start of a gas
\* frame; the rest of the frame came with a later read and the frame was
\* emitted as one message, with no error and the connection kept.
C28_Witness ==
    /\ timedOut = "joined"
    /\ rx = <<"{", "g", "}", NL>>
    /\ dataOut = << [type |-> "gas"] >>
    /\ wpc = "recv_test"
    /\ connected
    /\ socket = "connected"
    /\ lastError = "none"
    /\ lastStatus = "connected"

(***************************************************************************)
(* Reading what the manager does after stop.                               *)
(***************************************************************************)
\* C29: once NetworkManager.stop has returned, the manager's slot handles no
\* further data_received and no subscriber callback is invoked.
C29_QuietAfterStop ==
    [][mpc = "returned" => (slotCount' = slotCount /\ log' = log)]_vars

(***************************************************************************)
(* Reading the connected flag of the stream transport.                     *)
(***************************************************************************)
\* C30: in every state of a stream-mode worker the connected flag is true
\* only while the socket is one on which connect succeeded and that is still
\* open: the flag is false while the worker is connecting, while it is in
\* the reconnect wait, and once its loop has exited.
C30_FlagMatchesSocket ==
    /\ connected => socket = "connected"
    /\ wpc \in {"connect", "sleep"} => ~connected
    /\ LoopExited => ~connected
====
